---- MODULE Spec2Model ----
(***************************************************************************)
(* Model of scripts/run_pipeline.py: the sequential pipeline orchestrator  *)
(* (export trigger, Drive readiness polling, download, local processing,   *)
(* archival into a timestamped run directory, summary).  One run of the    *)
(* script is a walk of pc from "export" to "done" or "failed"; the         *)
(* scheduler may invoke the script again, and the local filesystem and the *)
(* Drive folder persist across runs.                                       *)
(***************************************************************************)
EXTENDS Integers, Sequences, FiniteSets, TLC

\* ---------------------------------------------------------------- bounds
MaxFiles == 2          \* entries the Drive folder ever holds
MaxDrift == 1          \* seconds per run the Drive calls themselves take

\* ------------------------------------------------------------- constants
SecondsPerMinute == 60 \* "%Y%m%d_%H%M" keeps the minute, drops the seconds

\* File titles a Drive entry or a plot can carry.
Titles == {"a.tif", "b.tif"}

\* (WAIT_TIME, MAX_WAIT) pairs, in seconds.  The script hardcodes 300 and
\* 7200 (24 polls); the loop is the same for any pair, and these small pairs
\* make 1, 2 and 3 polls happen, with MAX_WAIT a multiple of WAIT_TIME or not.
Configs == {<<2, 1>>, <<2, 4>>, <<2, 6>>, <<3, 4>>}

\* The scheduler's invocations: a first run and one re-run.
Runs == {1, 2}

\* Names of the plots the processing script may write into outputs/plots/;
\* the name is one an exported file can carry too.
PlotTitles == {"a.tif"}

\* The six stages, in script order.
Stages == <<"export", "poll", "fetch", "process", "archive", "summary">>

\* The list literal with its two folders swapped.
ArchiveFoldersReversed == <<"plots", "gee">>

\* The folders STEP 5 empties, in the order of the list literal.
ArchiveFolders == <<"gee", "plots">>

NoFile == <<"none", 0>>
NoSummary == -1
NoHit == [queries |-> 0, sleeps |-> 0, listing |-> <<>>]
NoPrev == [fetched |-> FALSE, archived |-> FALSE, files |-> <<>>,
           downloads |-> <<>>, preFetch |-> {}]

VARIABLES
    pc,            \* position of the script
    error,         \* the exception that ended the run, "" if none
    platform,      \* "posix" or "nt": decides os.rename onto an existing file
    WAIT_TIME,     \* seconds between checks for new exports
    MAX_WAIT,      \* max wait for Drive exports
    now,           \* the wall clock, seconds
    start_time,    \* time.time() taken before the loop
    files_ready,   \* the flag of the loop
    files,         \* the last listing returned (titles; position = Drive id)
    folderExists,  \* a non-trashed Drive folder named EXPORT_FOLDER exists
    remote,        \* titles of the entries in the Drive folder, oldest first
    gee,           \* outputs/gee/: [exists, files: title -> content]
    plots,         \* outputs/plots/: [exists, files: title -> content]
    processedExists, \* outputs/processed/ exists
    runDirs,       \* timestamp -> [files: title -> content, summary]
    timestamp,     \* the run's formatted timestamp, -1 before STEP 5
    idx,           \* position of the download loop in files
    folderIdx,     \* position of the move loop in ArchiveFolders
    pending,       \* os.listdir(folder) entries not yet moved
    runNo,         \* how many times the script has been started
    \* history of the current run (observers only, never read by the script)
    queries,       \* listing queries issued
    sleeps,        \* sleeps performed
    drift,         \* seconds the clock advanced outside the sleeps
    hit,           \* the first non-empty listing and the counters at that time
    downloads,     \* positions in files whose download was attempted
    preFetch,      \* titles present in outputs/gee/ when STEP 3 began
    preArchive,    \* contents of the two source folders when STEP 5 began
    moves,         \* <<folder, title>> successfully renamed
    refused,       \* <<folder, title>> whose rename hit an existing target
    started,       \* stages begun
    completed,     \* stages that finished without raising
    summaryWritten,\* this run wrote SUMMARY.txt
    fsAtStart,     \* the local filesystem when this run started
    prev           \* what the previous run did in STEP 3

pollVars == <<start_time, files_ready, files>>
driveVars == <<folderExists, remote>>
fsVars == <<gee, plots, processedExists, runDirs>>
cfgVars == <<platform, WAIT_TIME, MAX_WAIT>>
loopVars == <<idx, folderIdx, pending, timestamp>>
histVars == <<queries, sleeps, drift, hit, downloads, preFetch, preArchive,
              moves, refused, summaryWritten, fsAtStart, prev>>
vars == <<pc, error, cfgVars, now, pollVars, driveVars, fsVars, loopVars,
          runNo, histVars, started, completed>>

EmptyDir == [t \in Titles |-> NoFile]
Listdir(dir) == {t \in Titles : dir.files[t] # NoFile}

\* A stage begins / a stage finishes without raising.
Begin(s) == started' = Append(started, s)
Finish(s) == completed' = Append(completed, s)

\* subprocess.run without check=True: the exit status is ignored.
SubprocessUnchecked(ok, nextPc) == nextPc

\* subprocess.run(..., check=True): a non-zero exit raises CalledProcessError.
SubprocessNext(ok, nextPc) == IF ok THEN nextPc ELSE "failed"

\* raise: the script has no try/except, so any exception ends the process.
Raise(e) ==
    /\ pc' = "failed"
    /\ error' = e

Init ==
    /\ pc = "export"
    /\ error = ""
    /\ platform \in {"posix", "nt"}
    /\ \E c \in Configs : WAIT_TIME = c[1] /\ MAX_WAIT = c[2]
    /\ now = 0
    /\ start_time = 0
    /\ files_ready = FALSE
    /\ files = <<>>
    /\ folderExists \in BOOLEAN
    /\ remote = <<>>
    /\ gee = [exists |-> FALSE, files |-> EmptyDir]
    /\ plots = [exists |-> FALSE, files |-> EmptyDir]
    /\ processedExists = FALSE
    /\ runDirs = <<>>
    /\ timestamp = -1
    /\ idx = 0
    /\ folderIdx = 0
    /\ pending = {}
    /\ runNo = 1
    /\ queries = 0
    /\ sleeps = 0
    /\ drift = 0
    /\ hit = NoHit
    /\ downloads = <<>>
    /\ preFetch = {}
    /\ preArchive = [gee |-> gee, plots |-> plots]
    /\ moves = {}
    /\ refused = {}
    /\ started = <<>>
    /\ completed = <<>>
    /\ summaryWritten = FALSE
    /\ fsAtStart = [gee |-> gee, plots |-> plots,
                    processedExists |-> processedExists, runDirs |-> runDirs]
    /\ prev = NoPrev

\* ------------------------------------------------------- the environment
\* An Earth Engine export task finishes: the file appears in the Drive
\* folder, which Earth Engine creates when it is missing.  The script reads
\* the folder only in list_drive_files, so an arrival at any moment is the
\* same as one right before the next query or right after the polling ended
\* (with a listing, or with none: an arrival during the final sleep).
ExportArrives ==
    /\ \/ pc \in {"list", "makedirs"}
       \/ pc = "after_loop" /\ ~files_ready
    /\ Len(remote) < MaxFiles
    /\ \E t \in Titles : remote' = Append(remote, t)
    /\ folderExists' = TRUE
    /\ UNCHANGED <<pc, error, cfgVars, now, pollVars, fsVars, loopVars, runNo,
                   histVars, started, completed>>

\* Someone trashes the Drive folder while it is still empty: the query of
\* l.46 (trashed=false) no longer matches it.  As for an arrival, the moment
\* that matters is right before a listing query.
FolderTrashed ==
    /\ pc = "list"
    /\ folderExists
    /\ remote = <<>>
    /\ folderExists' = FALSE
    /\ remote' = remote
    /\ UNCHANGED <<pc, error, cfgVars, now, pollVars, fsVars, loopVars, runNo,
                   histVars, started, completed>>

\* ------------------------------------------------------ STEP 1 (l.31-34)
RunExport ==
    /\ pc = "export"
    /\ Begin("export")
    /\ \E ok \in BOOLEAN :
        /\ pc' = SubprocessNext(ok, "auth")
        /\ error' = IF pc' = "failed" THEN "CalledProcessError:export"
                    ELSE error
        /\ IF ok THEN Finish("export") ELSE completed' = completed
    /\ UNCHANGED <<cfgVars, now, pollVars, driveVars, fsVars, loopVars, runNo,
                   histVars>>

\* ------------------------------------------------------ STEP 2 (l.36-66)
\* Authentication, then start_time = time.time(); files_ready = False.
StartPolling ==
    /\ pc = "auth"
    /\ Begin("poll")
    /\ start_time' = now
    /\ files_ready' = FALSE
    /\ pc' = "while"
    /\ UNCHANGED <<error, cfgVars, now, files, driveVars, fsVars, loopVars,
                   runNo, histVars, completed>>

\* The loop test with <= for <.
LoopConditionInclusive(t, t0, limit) == t - t0 <= limit

\* while time.time() - start_time < MAX_WAIT
LoopCondition(t, t0, limit) == t - t0 < limit

WhileTest ==
    /\ pc = "while"
    /\ pc' = IF LoopCondition(now, start_time, MAX_WAIT) THEN "list"
             ELSE "after_loop"
    /\ UNCHANGED <<error, cfgVars, now, pollVars, driveVars, fsVars, loopVars,
                   runNo, histVars, started, completed>>

\* The test of the listing inverted: break on an empty listing.
AfterListingInverted(listing) ==
    IF listing # <<>> THEN "sleep" ELSE "after_loop"

\* The loop without its break: a non-empty listing is followed by a sleep.
AfterListingNoBreak(listing) == "sleep"

\* if files: ... files_ready = True; break   /   else fall through to sleep
AfterListing(listing) == IF listing # <<>> THEN "after_loop" ELSE "sleep"

\* list_drive_files without the test of folder_list: no match is taken for
\* an empty folder.
FolderFoundUnchecked(exists) == TRUE

\* if not folder_list: raise Exception(...)
FolderFound(exists) == exists

\* files = list_drive_files(EXPORT_FOLDER) and the test that follows it.
ListDriveFiles ==
    /\ pc = "list"
    /\ \E d \in 0..(MaxDrift - drift) :
        /\ now' = now + d
        /\ drift' = drift + d
    /\ queries' = queries + 1
    /\ IF ~FolderFound(folderExists)
       THEN /\ Raise("Exception:folder not found")
            /\ UNCHANGED <<files, files_ready, hit>>
       ELSE /\ files' = remote
            /\ files_ready' = (files_ready \/ remote # <<>>)
            /\ pc' = AfterListing(remote)
            /\ error' = error
            /\ hit' = IF hit = NoHit /\ remote # <<>>
                      THEN [queries |-> queries + 1, sleeps |-> sleeps,
                            listing |-> remote]
                      ELSE hit
    /\ UNCHANGED <<cfgVars, start_time, driveVars, fsVars, loopVars, runNo,
                   sleeps, downloads, preFetch, preArchive, moves, refused,
                   summaryWritten, fsAtStart, prev, started, completed>>

\* time.sleep(WAIT_TIME)
Sleep ==
    /\ pc = "sleep"
    /\ now' = now + WAIT_TIME
    /\ sleeps' = sleeps + 1
    /\ pc' = "while"
    /\ UNCHANGED <<error, cfgVars, pollVars, driveVars, fsVars, loopVars,
                   runNo, queries, drift, hit, downloads, preFetch,
                   preArchive, moves, refused, summaryWritten, fsAtStart, prev,
                   started, completed>>

\* The script without the check after the loop.
ReadyUnchecked(ready) == TRUE

\* if not files_ready: raise TimeoutError(...)
ReadyOrTimeout(ready) == ready

AfterLoop ==
    /\ pc = "after_loop"
    /\ IF ReadyOrTimeout(files_ready)
       THEN /\ pc' = "makedirs"
            /\ Finish("poll")
            /\ error' = error
       ELSE /\ Raise("TimeoutError")
            /\ completed' = completed
    /\ UNCHANGED <<cfgVars, now, pollVars, driveVars, fsVars, loopVars, runNo,
                   histVars, started>>

\* ------------------------------------------------------ STEP 3 (l.68-76)
\* os.makedirs(LOCAL_EXPORTS, exist_ok=True)
MakeExportsDir ==
    /\ pc = "makedirs"
    /\ Begin("fetch")
    /\ gee' = [gee EXCEPT !.exists = TRUE]
    /\ preFetch' = Listdir(gee)
    /\ idx' = 1
    /\ pc' = "download"
    /\ UNCHANGED <<error, cfgVars, now, pollVars, driveVars, plots,
                   processedExists, runDirs, folderIdx, pending, timestamp,
                   runNo, queries, sleeps, drift, hit, downloads, preArchive,
                   moves, refused, summaryWritten, fsAtStart, prev, completed>>

\* The test with its negation dropped.
ShouldDownloadIfPresent(pathExists) == pathExists

\* The loop without the test: every entry is fetched.
ShouldDownloadAlways(pathExists) == TRUE

\* if not os.path.exists(local_path)
ShouldDownload(pathExists) == ~pathExists

\* A download that leaves no file at local_path.
DownloadedNowhere(dir, title, id) == dir

\* f.GetContentFile(local_path): the file holds the content of Drive entry id.
Downloaded(dir, title, id) ==
    [dir EXCEPT !.files[title] = <<"drive", id>>]

\* A download loop that tries the failed entry again.
DownloadFailureRetried ==
    /\ pc' = pc
    /\ error' = "ApiRequestError:download"

\* GetContentFile raises and nothing catches it: the script ends in the loop.
DownloadFailure == Raise("ApiRequestError:download")

\* One iteration of "for f in files", or the end of the loop.
DownloadLoop ==
    /\ pc = "download"
    /\ IF idx > Len(files)
       THEN /\ pc' = "process"
            /\ Finish("fetch")
            /\ UNCHANGED <<error, gee, idx, downloads>>
       ELSE LET title == files[idx] IN
            IF ShouldDownload(gee.files[title] # NoFile)
            THEN /\ downloads' = Append(downloads, idx)
                 /\ \E ok \in BOOLEAN :
                     IF ok
                     THEN /\ gee' = Downloaded(gee, title, idx)
                          /\ idx' = idx + 1
                          /\ UNCHANGED <<pc, error>>
                     ELSE /\ DownloadFailure
                          /\ UNCHANGED <<gee, idx>>
                 /\ completed' = completed
            ELSE /\ idx' = idx + 1
                 /\ UNCHANGED <<pc, error, gee, downloads, completed>>
    /\ UNCHANGED <<cfgVars, now, pollVars, driveVars, plots, processedExists,
                   runDirs, folderIdx, pending, timestamp, runNo, queries,
                   sleeps, drift, hit, preFetch, preArchive, moves, refused,
                   summaryWritten, fsAtStart, prev, started>>

\* ------------------------------------------------------ STEP 4 (l.78-81)
\* The processing script is a black box: on success it has written some
\* plots (creating outputs/plots/ when it writes any).
RunProcessing ==
    /\ pc = "process"
    /\ Begin("process")
    /\ \E ok \in BOOLEAN, out \in SUBSET PlotTitles :
        /\ ~ok => out = {}
        /\ plots' = [exists |-> plots.exists \/ out # {},
                     files |-> [t \in Titles |->
                                   IF t \in out THEN <<"plot", runNo>>
                                   ELSE plots.files[t]]]
        /\ pc' = SubprocessNext(ok, "organize")
        /\ error' = IF pc' = "failed" THEN "CalledProcessError:process"
                    ELSE error
        /\ IF ok THEN Finish("process") ELSE completed' = completed
    /\ UNCHANGED <<cfgVars, now, pollVars, driveVars, gee, processedExists,
                   runDirs, loopVars, runNo, histVars>>

\* ------------------------------------------------------ STEP 5 (l.83-96)
\* datetime.now().strftime("%Y%m%d_%H%M")
FormatTimestamp(t) == t \div SecondsPerMinute

\* os.makedirs(path, exist_ok=True) on the run directory.
\* A run directory recreated empty whenever the archive step begins.
MakeRunDirFresh(dirs, ts) ==
    [k \in DOMAIN dirs \cup {ts} |->
        IF k \in DOMAIN dirs /\ k # ts THEN dirs[k]
        ELSE [files |-> EmptyDir, summary |-> NoSummary]]

MakeRunDir(dirs, ts) ==
    [k \in DOMAIN dirs \cup {ts} |->
        IF k \in DOMAIN dirs THEN dirs[k]
        ELSE [files |-> EmptyDir, summary |-> NoSummary]]

Organize ==
    /\ pc = "organize"
    /\ Begin("archive")
    /\ processedExists' = TRUE
    /\ timestamp' = FormatTimestamp(now)
    /\ runDirs' = MakeRunDir(runDirs, FormatTimestamp(now))
    /\ preArchive' = [gee |-> gee, plots |-> plots]
    /\ folderIdx' = 1
    /\ pc' = "folder"
    /\ UNCHANGED <<error, cfgVars, now, pollVars, driveVars, gee, plots, idx,
                   pending, runNo, queries, sleeps, drift, hit, downloads,
                   preFetch, moves, refused, summaryWritten, fsAtStart, prev,
                   completed>>

Folder(name) == IF name = "gee" THEN gee ELSE plots

\* for folder in [...]: if os.path.exists(folder): for f in os.listdir(folder)
EnterFolder ==
    /\ pc = "folder"
    /\ IF folderIdx > Len(ArchiveFolders)
       THEN /\ pc' = "summary"
            /\ Finish("archive")
            /\ UNCHANGED <<folderIdx, pending>>
       ELSE /\ IF Folder(ArchiveFolders[folderIdx]).exists
               THEN /\ pending' = Listdir(Folder(ArchiveFolders[folderIdx]))
                    /\ pc' = "move"
                    /\ folderIdx' = folderIdx
               ELSE /\ folderIdx' = folderIdx + 1
                    /\ UNCHANGED <<pc, pending>>
            /\ completed' = completed
    /\ UNCHANGED <<error, cfgVars, now, pollVars, driveVars, fsVars, idx,
                   timestamp, runNo, histVars, started>>

\* os.replace semantics: the target is replaced on every platform.
RenameAlwaysReplaces(os, dstExists) == TRUE

\* os.rename(src, dst) onto an existing file: replaced silently on POSIX,
\* FileExistsError on Windows.
RenameReplaces(os, dstExists) == os = "posix" \/ ~dstExists

\* A move loop wrapped in try/except: the failure ends the loop only.
MoveFailureCaught ==
    /\ pc' = "summary"
    /\ error' = "OSError:rename"

\* os.rename raises and nothing catches it: the script ends in the move loop.
MoveFailure == Raise("OSError:rename")

\* One iteration of "for f in os.listdir(folder)", or the end of that loop.
MoveLoop ==
    /\ pc = "move"
    /\ IF pending = {}
       THEN /\ folderIdx' = folderIdx + 1
            /\ pc' = "folder"
            /\ UNCHANGED <<error, gee, plots, runDirs, pending, moves, refused>>
       ELSE \E t \in pending, ok \in BOOLEAN :
            LET name == ArchiveFolders[folderIdx]
                dstExists == runDirs[timestamp].files[t] # NoFile
            IN  IF ok /\ RenameReplaces(platform, dstExists)
                THEN /\ runDirs' = [runDirs EXCEPT ![timestamp].files[t] =
                                        Folder(name).files[t]]
                     /\ gee' = IF name = "gee"
                               THEN [gee EXCEPT !.files[t] = NoFile] ELSE gee
                     /\ plots' = IF name = "plots"
                                 THEN [plots EXCEPT !.files[t] = NoFile]
                                 ELSE plots
                     /\ moves' = moves \cup {<<name, t>>}
                     /\ pending' = pending \ {t}
                     /\ UNCHANGED <<pc, error, folderIdx, refused>>
                ELSE /\ MoveFailure
                     /\ refused' = IF ok THEN refused \cup {<<name, t>>}
                                   ELSE refused
                     /\ UNCHANGED <<gee, plots, runDirs, pending, moves,
                                    folderIdx>>
    /\ UNCHANGED <<cfgVars, now, pollVars, driveVars, processedExists, idx,
                   timestamp, runNo, queries, sleeps, drift, hit, downloads,
                   preFetch, preArchive, summaryWritten, fsAtStart, prev,
                   started, completed>>

\* ----------------------------------------------------- STEP 6 (l.98-109)
\* A summary that counts the downloads instead of the listing.
FilesFetched(listing, fetched) == Len(fetched)

\* f.write(f"Files processed: {len(files)}\n")
FilesProcessed(listing, fetched) == Len(listing)

WriteSummary ==
    /\ pc = "summary"
    /\ Begin("summary")
    /\ \E ok \in BOOLEAN :
        IF ok
        THEN /\ runDirs' = [runDirs EXCEPT ![timestamp].summary =
                                FilesProcessed(files, downloads)]
             /\ summaryWritten' = TRUE
             /\ Finish("summary")
             /\ pc' = "done"
             /\ error' = error
        ELSE /\ Raise("OSError:summary")
             /\ UNCHANGED <<runDirs, summaryWritten, completed>>
    /\ UNCHANGED <<cfgVars, now, pollVars, driveVars, gee, plots,
                   processedExists, loopVars, runNo, queries, sleeps, drift,
                   hit, downloads, preFetch, preArchive, moves, refused,
                   fsAtStart, prev>>

\* ------------------------------------------------------------ scheduler
\* Task Scheduler starts the script again: a second later, or when the next
\* minute of the wall clock begins.
NextMinute(t) == (t \div SecondsPerMinute + 1) * SecondsPerMinute

StartRun ==
    /\ pc \in {"done", "failed"}
    /\ runNo + 1 \in Runs
    /\ runNo' = runNo + 1
    /\ now' \in {now + 1, NextMinute(now)}
    /\ prev' = [fetched |-> Len(completed) >= 3,
                archived |-> Len(started) >= 5,
                files |-> files, downloads |-> downloads,
                preFetch |-> preFetch]
    /\ pc' = "export"
    /\ error' = ""
    /\ start_time' = 0
    /\ files_ready' = FALSE
    /\ files' = <<>>
    /\ timestamp' = -1
    /\ idx' = 0
    /\ folderIdx' = 0
    /\ pending' = {}
    /\ queries' = 0
    /\ sleeps' = 0
    /\ drift' = 0
    /\ hit' = NoHit
    /\ downloads' = <<>>
    /\ preFetch' = {}
    /\ preArchive' = [gee |-> gee, plots |-> plots]
    /\ fsAtStart' = [gee |-> gee, plots |-> plots,
                     processedExists |-> processedExists,
                     runDirs |-> runDirs]
    /\ moves' = {}
    /\ refused' = {}
    /\ started' = <<>>
    /\ completed' = <<>>
    /\ summaryWritten' = FALSE
    /\ UNCHANGED <<cfgVars, driveVars, fsVars>>

Next ==
    \/ ExportArrives
    \/ FolderTrashed
    \/ RunExport
    \/ StartPolling
    \/ WhileTest
    \/ ListDriveFiles
    \/ Sleep
    \/ AfterLoop
    \/ MakeExportsDir
    \/ DownloadLoop
    \/ RunProcessing
    \/ Organize
    \/ EnterFolder
    \/ MoveLoop
    \/ WriteSummary
    \/ StartRun

Spec == Init /\ [][Next]_vars

\* The steps of the polling loop.  The script is one sequential process whose
\* remote calls and sleeps return, so a loop step that can be taken is taken.
Poller == WhileTest \/ ListDriveFiles \/ Sleep \/ AfterLoop

FairSpec == Spec /\ WF_vars(Poller)

\* ================================================================ claims
IsPrefix(p, q) == Len(p) <= Len(q) /\ \A i \in 1..Len(p) : p[i] = q[i]

\* The local filesystem is as this run found it.
LocalUntouched ==
    /\ gee = fsAtStart.gee
    /\ plots = fsAtStart.plots
    /\ processedExists = fsAtStart.processedExists
    /\ runDirs = fsAtStart.runDirs

\* C1: the first poll attempt whose listing is non-empty ends the polling.
\* From then on the listing the script holds is exactly that snapshot, no
\* listing query and no sleep is added, the loop is never re-entered, every
\* download is of an entry of the snapshot, and the summary counts the
\* snapshot, whatever arrives in the folder later.
C1_FirstNonEmptyListingEndsPolling ==
    hit # NoHit =>
        /\ files = hit.listing
        /\ files_ready
        /\ queries = hit.queries
        /\ sleeps = hit.sleeps
        /\ pc \notin {"while", "list", "sleep"}
        /\ \A j \in 1..Len(downloads) : downloads[j] \in 1..Len(hit.listing)
        /\ \A t \in Titles :
              gee.files[t] # fsAtStart.gee.files[t] /\ gee.files[t] # NoFile
                  => gee.files[t][2] \in 1..Len(hit.listing)
        /\ summaryWritten =>
              runDirs[timestamp].summary = Len(hit.listing)

\* C1 witness: a run completed on a snapshot taken at its second query, and
\* an entry arrived in the folder after the snapshot.
C1_Witness ==
    /\ pc = "done"
    /\ hit.queries = 2
    /\ Len(remote) > Len(hit.listing)
    /\ summaryWritten

\* C2: while no non-empty listing has been observed in the run, the Fetcher
\* is never entered: no download is attempted, no stage after the poller has
\* begun, the local filesystem is as the run found it (no directory, run
\* directory or SUMMARY.txt created), and when the loop has run out of time
\* the run ends with TimeoutError.
C2_EmptyWindowTimesOut ==
    hit = NoHit =>
        /\ ~files_ready
        /\ downloads = <<>>
        /\ IsPrefix(started, <<"export", "poll">>)
        /\ pc \in {"export", "auth", "while", "list", "sleep", "after_loop",
                   "failed"}
        /\ LocalUntouched
        /\ ~summaryWritten
        /\ timestamp = -1
        /\ (pc = "failed" /\ queries > 0
                /\ error # "Exception:folder not found")
              => /\ error = "TimeoutError"
                 /\ ~LoopCondition(now, start_time, MAX_WAIT)

\* C2 witness: a re-run, with files of the earlier run on disk, polled twice
\* or more, saw only empty listings and ended with TimeoutError.
C2_Witness ==
    /\ pc = "failed"
    /\ error = "TimeoutError"
    /\ hit = NoHit
    /\ queries >= 2
    /\ runNo = 2

\* C3: when the run ends with TimeoutError, the clock advanced only through
\* the sleeps and MAX_WAIT = k * WAIT_TIME, exactly k listing queries (and k
\* sleeps) were made - 2 for MAX_WAIT = 2 * WAIT_TIME - and the local
\* filesystem is as the run found it.
C3_ExactlyKAttempts ==
    (error = "TimeoutError" /\ drift = 0 /\ MAX_WAIT % WAIT_TIME = 0) =>
        /\ queries = MAX_WAIT \div WAIT_TIME
        /\ sleeps = MAX_WAIT \div WAIT_TIME
        /\ MAX_WAIT = 2 * WAIT_TIME => queries = 2
        /\ hit = NoHit
        /\ LocalUntouched

\* C3 witness: a first run with MAX_WAIT = 2 * WAIT_TIME timed out after two
\* queries, nothing local existing.
C3_Witness ==
    /\ error = "TimeoutError"
    /\ drift = 0
    /\ MAX_WAIT = 2 * WAIT_TIME
    /\ queries = 2
    /\ runNo = 1
    /\ ~gee.exists /\ ~plots.exists /\ ~processedExists

\* C4: the stages begin in script order, each at most once per run, and a
\* stage begins only when every earlier stage has finished without raising;
\* SUMMARY.txt is written only by a run in which all six stages finished.
C4_StrictlyLinearStages ==
    /\ IsPrefix(started, Stages)
    /\ IsPrefix(completed, started)
    /\ Len(started) <= Len(completed) + 1
    /\ pc = "failed" => Len(started) = Len(completed) + 1
    /\ summaryWritten => completed = Stages
    /\ pc = "done" <=> completed = Stages

\* C4 witness: a run went through all six stages.
C4_Witness ==
    /\ pc = "done"
    /\ started = Stages
    /\ completed = Stages
    /\ summaryWritten

\* ---------------------------------------------------------- the Fetcher
\* STEP 3 of this run finished and STEP 5 has not begun.
FetchCompleted == Len(completed) >= 3 /\ Len(started) <= 4

\* This run and the previous one both finished STEP 3, on the same entries
\* and the same outputs/gee/ (the previous run moved nothing out of it).
FetchedTwice ==
    /\ prev.fetched
    /\ ~prev.archived
    /\ Len(completed) >= 3
    /\ files = prev.files

\* Download attempts of entry i over the two runs.
Attempts(i) ==
    Cardinality({j \in 1..Len(prev.downloads) : prev.downloads[j] = i})
        + Cardinality({j \in 1..Len(downloads) : downloads[j] = i})

\* Entry i is the first of the listing to carry its title.
FirstOfTitle(listing, i) == \A j \in 1..(i - 1) : listing[j] # listing[i]

\* C5 as stated: two invocations of the Fetcher on the same entries and the
\* same directory make exactly one download attempt per entry, the second
\* invocation none.
C5_ExactlyOneAttemptPerEntry ==
    FetchedTwice =>
        /\ downloads = <<>>
        /\ \A i \in 1..Len(files) : Attempts(i) = 1

\* C5 amended: two invocations of the Fetcher on the same entries and the
\* same directory make at most one download attempt per entry - exactly one
\* for an entry whose name was not in the directory before the first
\* invocation and is carried by no earlier entry of the listing, none for any
\* other entry - and the second invocation makes no download.
C5_AtMostOneAttemptPerEntry ==
    FetchedTwice =>
        /\ downloads = <<>>
        /\ \A i \in 1..Len(files) :
              Attempts(i) = IF FirstOfTitle(files, i)
                                  /\ files[i] \notin prev.preFetch
                            THEN 1 ELSE 0

\* C5 witness: the Fetcher ran twice on the same two entries.
C5_Witness ==
    /\ FetchedTwice
    /\ Len(files) = 2
    /\ Len(prev.downloads) >= 1
    /\ pc = "process"

\* C6: when the Fetcher has finished, outputs/gee/ exists and every entry of
\* the listing has a file under its title there: one that was there when the
\* Fetcher began, unchanged, or one this run downloaded from an entry of
\* that title.
C6_EveryEntryHasLocalFile ==
    FetchCompleted =>
        /\ gee.exists
        /\ \A i \in 1..Len(files) :
              /\ gee.files[files[i]] # NoFile
              /\ \/ /\ files[i] \in preFetch
                    /\ gee.files[files[i]] = fsAtStart.gee.files[files[i]]
                 \/ \E j \in 1..Len(downloads) :
                       /\ files[downloads[j]] = files[i]
                       /\ gee.files[files[i]] = <<"drive", downloads[j]>>

\* C6 witness: the Fetcher finished on two entries, one already present and
\* one downloaded by this run.
C6_Witness ==
    /\ pc = "process"
    /\ Len(files) = 2
    /\ preFetch # {}
    /\ Len(downloads) = 1

\* C7: when the download loop processes an entry whose local path exists,
\* it issues no download and leaves outputs/gee/ as it is.
C7_ExistingFileNeverRefetched ==
    [][(/\ pc = "download"
        /\ idx <= Len(files)
        /\ gee.files[files[idx]] # NoFile)
          => (gee' = gee /\ downloads' = downloads /\ idx' = idx + 1)]_vars

\* C7 witness: the Fetcher finished, and an entry's local file, present
\* before, still holds content that is not this entry's.
C7_Witness ==
    /\ FetchCompleted
    /\ \E i \in 1..Len(files) :
          /\ files[i] \in preFetch
          /\ gee.files[files[i]] = fsAtStart.gee.files[files[i]]
          /\ gee.files[files[i]] # <<"drive", i>>

\* --------------------------------------------------------- the Archiver
ArchiveCompleted == Len(completed) >= 5

\* C8: when the move loop has finished, every entry that was in outputs/gee/
\* or outputs/plots/ when STEP 5 began is in the run directory and no longer
\* in its source folder; under a title both folders held, the run directory
\* holds the entry of outputs/plots/, the folder processed last; the source
\* folders that existed still exist, and a missing one is still missing.
C8_ArchivalIsRelocation ==
    ArchiveCompleted =>
        /\ \A t \in Titles :
              /\ preArchive.gee.files[t] # NoFile =>
                    /\ gee.files[t] = NoFile
                    /\ runDirs[timestamp].files[t] =
                          IF preArchive.plots.files[t] # NoFile
                          THEN preArchive.plots.files[t]
                          ELSE preArchive.gee.files[t]
              /\ preArchive.plots.files[t] # NoFile =>
                    /\ plots.files[t] = NoFile
                    /\ runDirs[timestamp].files[t] = preArchive.plots.files[t]
        /\ gee.exists /\ preArchive.gee.exists
        /\ plots.exists = preArchive.plots.exists
        /\ moves = {<<"gee", t>> : t \in Listdir(preArchive.gee)}
                     \cup {<<"plots", t>> : t \in Listdir(preArchive.plots)}

\* C8 witness: the move loop finished on a run where both folders held an
\* entry of the same title and outputs/gee/ held another entry as well.
C8_Witness ==
    /\ ArchiveCompleted
    /\ \E t \in Titles :
          /\ preArchive.gee.files[t] # NoFile
          /\ preArchive.plots.files[t] # NoFile
    /\ Cardinality(Listdir(preArchive.gee)) = 2

\* -------------------------------------------------------- the summary
\* C9: a SUMMARY.txt written by this run reports the number of entries of
\* the listing the poll returned, whatever the number of downloads and of
\* files moved.
C9_SummaryCountsListing ==
    summaryWritten =>
        /\ hit # NoHit
        /\ runDirs[timestamp].summary = Len(hit.listing)
        /\ runDirs[timestamp].summary = Len(files)

\* C9 witness: the summary was written by a run that downloaded fewer
\* entries than it listed and moved a different number of files.
C9_Witness ==
    /\ summaryWritten
    /\ Len(files) = 2
    /\ Len(downloads) = 1
    /\ Cardinality(moves) # Len(files)

\* C10 as stated: a run that ended after a move failed has still written
\* SUMMARY.txt.
C10_SummaryWrittenAfterFailedMove ==
    (error = "OSError:rename" /\ pc \in {"failed", "done"}) => summaryWritten

\* C10 amended: when a move fails the run ends there: no further entry is
\* relocated (the entries not yet moved are still in their folder, a folder
\* not yet reached is as it was), the summary step is not attempted and the
\* run directory's SUMMARY.txt is not written by this run.
C10_FailedMoveEndsRun ==
    error = "OSError:rename" =>
        /\ pc = "failed"
        /\ ~summaryWritten
        /\ started = SubSeq(Stages, 1, 5)
        /\ completed = SubSeq(Stages, 1, 4)
        /\ runDirs[timestamp].summary =
              IF timestamp \in DOMAIN fsAtStart.runDirs
              THEN fsAtStart.runDirs[timestamp].summary ELSE NoSummary
        /\ pending # {}
        /\ \A t \in pending :
              Folder(ArchiveFolders[folderIdx]).files[t] # NoFile
        /\ folderIdx = 1 => plots = preArchive.plots

\* C10 witness: a move failed after another entry had been moved, with
\* entries of outputs/plots/ still waiting.
C10_Witness ==
    /\ error = "OSError:rename"
    /\ moves # {}
    /\ folderIdx = 1
    /\ Listdir(plots) # {}

\* ------------------------------------------------------ fatal failures
\* STEP 1 began and did not finish: the export subprocess failed.
ExportFailed == Len(started) >= 1 /\ completed = <<>>

\* STEP 4 began and did not finish: the processing subprocess failed.
ProcessingFailed == Len(started) >= 4 /\ Len(completed) = 3

\* C11: a failed trigger ends the run.  After a failed export no listing
\* query is made, no later stage begins and the local filesystem is as the
\* run found it.  After a failed processing step no later stage begins: no
\* run directory is created, nothing is moved, no summary is written, and
\* the file of every listed entry is still in outputs/gee/.  Neither trigger
\* is invoked a second time in the run.
C11_TriggerFailureIsFatal ==
    /\ ExportFailed =>
          /\ pc = "failed"
          /\ error = "CalledProcessError:export"
          /\ started = <<"export">>
          /\ queries = 0
          /\ sleeps = 0
          /\ LocalUntouched
    /\ ProcessingFailed =>
          /\ pc = "failed"
          /\ error = "CalledProcessError:process"
          /\ started = SubSeq(Stages, 1, 4)
          /\ runDirs = fsAtStart.runDirs
          /\ processedExists = fsAtStart.processedExists
          /\ timestamp = -1
          /\ moves = {}
          /\ ~summaryWritten
          /\ \A i \in 1..Len(files) : gee.files[files[i]] # NoFile

\* C11 witness: the processing step failed in a run that had downloaded two
\* entries.
C11_Witness ==
    /\ ProcessingFailed
    /\ Len(downloads) = 2
    /\ pc = "failed"

\* C12: a failed download ends the run at that entry: it is the last
\* download attempted, no entry is attempted twice, the entry has no local
\* file, and no later stage begins (no plots written, no run directory, no
\* move, no summary).
C12_FirstFailedDownloadIsFatal ==
    error = "ApiRequestError:download" =>
        /\ pc = "failed"
        /\ started = SubSeq(Stages, 1, 3)
        /\ completed = SubSeq(Stages, 1, 2)
        /\ downloads # <<>>
        /\ downloads[Len(downloads)] = idx
        /\ \A j, k \in 1..Len(downloads) : j < k => downloads[j] < downloads[k]
        /\ gee.files[files[idx]] = NoFile
        /\ plots = fsAtStart.plots
        /\ processedExists = fsAtStart.processedExists
        /\ runDirs = fsAtStart.runDirs
        /\ moves = {}
        /\ ~summaryWritten

\* C12 witness: the download of the first of two entries failed, and the
\* second entry, not on disk, was never attempted.
C12_Witness ==
    /\ error = "ApiRequestError:download"
    /\ idx = 1
    /\ Len(files) = 2
    /\ gee.files[files[2]] = NoFile
    /\ downloads = <<1>>

C14_SleepsBeforeFirstListing ==
    /\ sleeps <= queries
    /\ queries <= sleeps + 1
    /\ pc = "sleep" => (files = <<>> /\ queries = sleeps + 1)
    /\ hit # NoHit =>
          /\ Len(hit.listing) >= 1
          /\ queries = hit.queries
          /\ sleeps = hit.queries - 1
    /\ pc = "done" =>
          /\ hit # NoHit
          /\ completed = Stages
          /\ runDirs[timestamp].summary = Len(hit.listing)
          /\ \A i \in 1..Len(hit.listing) :
                runDirs[timestamp].files[hit.listing[i]] # NoFile

\* C14 witness: empty on the first attempt, two entries on the second; the
\* run slept once, downloaded both and wrote a summary that reports 2.
C14_Witness ==
    /\ pc = "done"
    /\ hit.queries = 2
    /\ sleeps = 1
    /\ Len(hit.listing) = 2
    /\ Len(downloads) = 2
    /\ runDirs[timestamp].summary = 2

\* ---------------------------------------------------------------------------
\* C15

\* Title t was in outputs/gee/ and in outputs/plots/ when STEP 5 began.
Collides(t) ==
    /\ preArchive.gee.files[t] # NoFile
    /\ preArchive.plots.files[t] # NoFile

\* C15 as stated: when both source directories hold an entry of one name,
\* the second relocation overwrites the first without an error, so no rename
\* of a colliding name is ever refused.
C15_CollisionSilentlyOverwritten ==
    \A t \in Titles :
        (Collides(t) /\ <<"gee", t>> \in moves) => <<"plots", t>> \notin refused

\* C15 amended: the outcome of a same-name collision depends on the platform
\* of os.rename. On POSIX the entry of outputs/plots/ replaces the one moved
\* from outputs/gee/, both source entries are gone and that rename raises
\* nothing. On Windows the second rename raises FileExistsError: the run ends
\* in the move loop without a summary, the run directory keeps the entry of
\* outputs/gee/ and the entry of outputs/plots/ stays where it was.
C15_CollisionOutcomeByPlatform ==
    \A t \in Titles :
        Collides(t) =>
            /\ <<"plots", t>> \in moves =>
                  /\ platform = "posix"
                  /\ <<"gee", t>> \in moves
                  /\ <<"plots", t>> \notin refused
                  /\ runDirs[timestamp].files[t] = preArchive.plots.files[t]
                  /\ gee.files[t] = NoFile
                  /\ plots.files[t] = NoFile
            /\ <<"plots", t>> \in refused =>
                  /\ platform = "nt"
                  /\ pc = "failed"
                  /\ error = "OSError:rename"
                  /\ ~summaryWritten
                  /\ runDirs[timestamp].files[t] # NoFile
                  /\ <<"gee", t>> \in moves =>
                        runDirs[timestamp].files[t] = preArchive.gee.files[t]
                  /\ plots.files[t] = preArchive.plots.files[t]

\* C15 witness: on POSIX a run finished whose two source directories both
\* held the same title, with different contents.
C15_Witness ==
    /\ pc = "done"
    /\ platform = "posix"
    /\ \E t \in Titles :
          /\ Collides(t)
          /\ preArchive.gee.files[t] # preArchive.plots.files[t]
          /\ <<"gee", t>> \in moves
          /\ <<"plots", t>> \in moves

\* ---------------------------------------------------------------------------
\* C16

\* The archive step of this run began in a minute whose run directory was
\* already there when the run started.
SameMinuteRerun ==
    /\ timestamp # -1
    /\ timestamp \in DOMAIN fsAtStart.runDirs

\* What the earlier run left in the run directory this run reuses.
Earlier == fsAtStart.runDirs[timestamp]

\* C16 as stated: a run that reuses the run directory of an earlier run of
\* the same minute relocates its files alongside or over the files of that
\* run, so no rename is refused because of a file the earlier run left, and
\* a run that ends has replaced the summary.
C16_SecondRunSharesDirectoryUnhindered ==
    SameMinuteRerun =>
        /\ \A r \in refused : Earlier.files[r[2]] = NoFile
        /\ pc = "done" => runDirs[timestamp].summary = Len(files)

\* C16 amended: a run whose archive step falls in the minute of an earlier
\* run reuses that run's directory and does not fail on finding it. Files of
\* the earlier run that the later run does not name stay as they were. On
\* POSIX a same-named file is replaced and a run that ends has overwritten
\* SUMMARY.txt with its own count. On Windows the rename onto a same-named
\* file is refused: the run ends there and the earlier run's file and
\* summary stay.
C16_SecondRunSharesDirectory ==
    SameMinuteRerun =>
        /\ timestamp = FormatTimestamp(now)
        /\ Len(started) >= 5
        /\ DOMAIN runDirs = DOMAIN fsAtStart.runDirs
        /\ \A t \in Titles :
              /\ (\A f \in {"gee", "plots"} : <<f, t>> \notin moves) =>
                    runDirs[timestamp].files[t] = Earlier.files[t]
              /\ (Earlier.files[t] # NoFile
                    /\ \E f \in {"gee", "plots"} : <<f, t>> \in moves) =>
                    platform = "posix"
        /\ \A r \in refused :
              /\ platform = "nt"
              /\ pc = "failed"
              /\ runDirs[timestamp].files[r[2]] # NoFile
              /\ Earlier.files[r[2]] # NoFile =>
                    runDirs[timestamp].files[r[2]] = Earlier.files[r[2]]
        /\ ~summaryWritten => runDirs[timestamp].summary = Earlier.summary
        /\ pc = "done" => runDirs[timestamp].summary = Len(files)

\* C16 witness: a run that began after the first second of a minute ended in
\* the minute of the earlier run, moved a file over a same-named file of that
\* run and replaced a summary that reported a different count.
C16_Witness ==
    /\ SameMinuteRerun
    /\ pc = "done"
    /\ now > timestamp * SecondsPerMinute
    /\ Earlier.summary # NoSummary
    /\ Earlier.summary # runDirs[timestamp].summary
    /\ \E t \in Titles, f \in {"gee", "plots"} :
          /\ Earlier.files[t] # NoFile
          /\ <<f, t>> \in moves

\* ---------------------------------------------------------------------------
\* C17

\* C17: a listing query is issued only while the elapsed time is strictly
\* below MAX_WAIT, the test being made before every query; once the loop has
\* ended without a listing no query follows, so entries that arrive in the
\* folder during the final sleep are not observed and the run ends with
\* TimeoutError although the folder is no longer empty.
C17_NoQueryOnceWaitElapsed ==
    /\ pc = "list" => now - start_time < MAX_WAIT
    /\ (pc = "after_loop" /\ ~files_ready) =>
          /\ now - start_time >= MAX_WAIT
          /\ queries = sleeps
          /\ hit = NoHit
    /\ error = "TimeoutError" =>
          /\ pc = "failed"
          /\ now - start_time >= MAX_WAIT
          /\ queries = sleeps
          /\ files = <<>>
          /\ hit = NoHit
          /\ IsPrefix(started, <<"export", "poll">>)

\* C17 witness: entries arrived after the last query of a run that polled
\* twice or more, and the run ended with TimeoutError.
C17_Witness ==
    /\ error = "TimeoutError"
    /\ remote # <<>>
    /\ files = <<>>
    /\ queries >= 2
    /\ runNo = 1

\* ---------------------------------------------------------------------------
\* C18

PollerPcs == {"while", "list", "sleep", "after_loop"}

CeilDiv(a, b) == (a + b - 1) \div b

\* The polling of this run has ended.
PollerEnded == Len(started) >= 2 /\ pc \notin PollerPcs

\* The three ways the polling ends.
ListingReturned == Len(completed) >= 2 /\ hit # NoHit /\ files = hit.listing
ContainerNotFound ==
    /\ error = "Exception:folder not found"
    /\ Len(completed) = 1
TimedOut ==
    /\ error = "TimeoutError"
    /\ Len(completed) = 1
    /\ hit = NoHit

PollerOutcomes ==
    /\ queries <= CeilDiv(MAX_WAIT, WAIT_TIME)
    /\ PollerEnded =>
          /\ ListingReturned \/ ContainerNotFound \/ TimedOut
          /\ ~(ListingReturned /\ ContainerNotFound)
          /\ ~(ListingReturned /\ TimedOut)
          /\ ~(ContainerNotFound /\ TimedOut)

\* C18: with the loop steps taken whenever they can be, the polling of every
\* run ends; it ends in exactly one of three ways (a non-empty listing, the
\* folder-not-found error, TimeoutError), and no run makes more than
\* ceil(MAX_WAIT / WAIT_TIME) listing queries.
C18_PollerTerminates ==
    /\ []PollerOutcomes
    /\ (pc \in PollerPcs) ~> PollerEnded

\* C18 witness: a run made ceil(MAX_WAIT / WAIT_TIME) queries, more than one,
\* with MAX_WAIT no multiple of WAIT_TIME, and its polling has ended.
C18_Witness ==
    /\ PollerEnded
    /\ MAX_WAIT % WAIT_TIME # 0
    /\ queries = CeilDiv(MAX_WAIT, WAIT_TIME)
    /\ queries >= 2

\* ---------------------------------------------------------------------------
\* C19

\* C19: every SUMMARY.txt on disk reports a count of at least 1; the fetch
\* and every later stage begin only with a non-empty listing in hand; and a
\* run that polled a folder that was there and never saw an entry does not
\* complete: it ends only with TimeoutError.
C19_SummaryCountAtLeastOne ==
    /\ \A k \in DOMAIN runDirs :
          runDirs[k].summary # NoSummary => runDirs[k].summary >= 1
    /\ Len(started) >= 3 =>
          /\ Len(files) >= 1
          /\ hit # NoHit
          /\ files_ready
    /\ (hit = NoHit /\ queries > 0) =>
          /\ pc # "done"
          /\ ~summaryWritten
          /\ pc = "failed" =>
                error \in {"TimeoutError", "Exception:folder not found"}
          /\ (pc = "failed" /\ folderExists) => error = "TimeoutError"

\* C19 witness: a run whose first listing was empty went on, once entries
\* had arrived, to write a summary that reports them.
C19_Witness ==
    /\ summaryWritten
    /\ pc = "done"
    /\ hit.queries >= 2
    /\ runDirs[timestamp].summary = Len(hit.listing)
    /\ runDirs[timestamp].summary >= 1

====
